---- MODULE Spec2Model ----
(***************************************************************************)
(* Model of the digital-logic teaching demos.                              *)
(*                                                                         *)
(*  Spec     the Interactive Logic Circuit Simulator (src/app.py, repeated *)
(*           verbatim at the end of src/logic.py and src/logic/logic.py):  *)
(*           one action per Streamlit script run, each run ending with the *)
(*           sidebar refresh and the call of compute_output.               *)
(*  SpecAdv  the Advanced Circuit Simulator (src/test.py), which keeps its *)
(*           graph and node table under the same session keys. test.py     *)
(*           reads the two keys and never creates them; the model starts   *)
(*           the session with them as app.py creates them.                 *)
(*  SpecSim  the D flip-flop and Master-Slave JK flip-flop simulators of   *)
(*           src/logic/logic.py in Simulation Mode (in the other modes     *)
(*           they store nothing), and one DFlipFlop object of src/test.py. *)
(*  SpecLatch the SR latches, the two flip-flop simulators and the shift   *)
(*           register of src/logic/logic.py in one session: the latches   *)
(*           and the JK simulator keep their state under the same keys.   *)
(*  SpecLab  the adder and subtractor simulators with the waveform log    *)
(*           that log_data keeps for the session.                         *)
(*  SpecFw   the sketch src/updated/arduino.py, one action per request.   *)
(*  SpecHw   send_arduino_command and the Hardware Mode runs of           *)
(*           src/logic/logic.py against that sketch.                      *)
(*  SpecGui  the desktop GUI src/logic_gate_gui.py: the reader thread,    *)
(*           the queue and process_queue on the Tk main loop.             *)
(*                                                                         *)
(* A node id is the pair <<tag, number>> of the f-string                   *)
(* f"{tag}_{random.randint(...)}"; the random number is drawn from IdNums. *)
(* Bits are 0 and 1 (Python's False == 0 and True == 1).                   *)
(***************************************************************************)
EXTENDS Integers, Sequences, FiniteSets, TLC

\* ------------------------------------------------------------------ bounds
MaxNodes == 3
MaxEdges == 2
NumIds == 1
NumInputNames == 2
MaxAdvNodes == 3
MaxAdvEdges == 2
MaxTargets == 2
NumAdvIds == 1
MaxClock == 2
MaxLog == 3
MaxLines == 3

IdNums == 1..NumIds

\* ------------------------------------------------------------ state
VARIABLES
    nodes,          \* st.session_state.nodes: node id -> kind
    circuit_graph,  \* st.session_state.circuit_graph: [node: Seq(id), edge: Seq(<<u, v>>)]
    input_values,   \* st.session_state.input_values: Input node id -> bit
    node_values,    \* compute_output's local mapping when the last call ended
    error,          \* how the last script run ended: "none" or the exception raised
    output_values,  \* <<m>> when the last call returned the mapping m, <<>> when it raised
    snapshot,       \* history: <<r>>, r an earlier evaluation of the graph as it is now
    components,     \* st.session_state.components of test.py: [seq, values, clock]
    d_ff,           \* session keys d_ff_q, d_ff_q_not, prev_clock
    d_sample,       \* history: the toggles [d_input, clock] the D simulator read last
    jk_ff,          \* session keys q_state, q_not_state ([absent |-> TRUE] before
                    \* the first simulator that uses them has run)
    jk_sample,      \* history: the toggles [j_input, k_input, clock_input] read last
    flip_flop,      \* a DFlipFlop object: [state, prev_clk]
    update_args,    \* history: the arguments [D, clk] of its last update call
    arduino,        \* the firmware's globals [inputA, inputB, output]
    served,         \* history: <<[doc, line]>>, the last request the firmware read
                    \* and the line it printed ("" when it printed nothing)
    fw_snapshot,    \* history: <<r>>, r an earlier value of served[1]
    call,           \* history: the last call of send_arduino_command and its results
    ser,            \* the global ser of logic.py when the last script run ended
    hardware_connected, \* the global hardware_connected when it ended
    response,       \* <<r>> when that run called send_arduino_command and got r
    sr_sample,      \* history: the latch run last and its toggles [latch, set_input, reset_input]
    shift_register_state, \* session key shift_register_state: <<Bit 3, Bit 2, Bit 1, Bit 0>>
    shift_sample,   \* history: the toggles [shift_right, shift_left, data_input] read last
    adder,          \* history: what the adder or subtractor run last showed
    waveform_data,  \* session key waveform_data: [Time, Inputs, Outputs]
    serial_port,    \* LogicGateGUI.serial_port: [is_open, in_waiting]
    queue,          \* LogicGateGUI.queue
    hardware_led_label, \* the image the LED label of the GUI shows
    after,          \* the call of process_queue in the Tk main loop: "none",
                    \* "pending" (scheduled by master.after) or "running"
    gui             \* the rest of the LogicGateGUI object [constructed, thread,
                    \* led_on_image, led_off_image] and, as history, the lines
                    \* its threads [read, processed]

appVars == <<input_values, node_values, output_values, snapshot>>
fwVars == <<arduino, served, fw_snapshot>>
hwVars == <<call, ser, hardware_connected, response>>
labVars == <<sr_sample, shift_register_state, shift_sample, adder, waveform_data>>
guiVars == <<serial_port, queue, hardware_led_label, after, gui>>
simVars == <<d_ff, d_sample, jk_ff, jk_sample, flip_flop, update_args, fwVars, hwVars,
             labVars, guiVars>>
vars == <<nodes, circuit_graph, error, appVars, components, simVars>>

Bit == {0, 1}
None == "None"
NoMapping == <<>>
NoSnapshot == <<>>
EmptyMap == [x \in {} |-> 0]
EmptyGraph == [node |-> <<>>, edge |-> <<>>]

Range(s) == {s[i] : i \in 1..Len(s)}

\* ------------------------------------------------------ gate functions
AND(a, b) == IF a = 1 /\ b = 1 THEN 1 ELSE 0
OR(a, b) == IF a = 1 \/ b = 1 THEN 1 ELSE 0
\* faulty variant: inclusive or
XOR_inclusive(a, b) == IF a = 1 \/ b = 1 THEN 1 ELSE 0
XOR(a, b) == IF a # b THEN 1 ELSE 0
NAND(a, b) == IF a = 1 /\ b = 1 THEN 0 ELSE 1
NOR(a, b) == IF a = 1 \/ b = 1 THEN 0 ELSE 1
XNOR(a, b) == IF a # b THEN 0 ELSE 1
NOT(a) == IF a = 1 THEN 0 ELSE 1

GateKinds == {"AND", "OR", "XOR", "NAND", "NOR", "XNOR", "NOT"}

\* gate_functions[gate_type](a, b) for the two-argument functions
gate_functions(gate_type, a, b) ==
    CASE gate_type = "AND" -> AND(a, b)
      [] gate_type = "OR" -> OR(a, b)
      [] gate_type = "XOR" -> XOR(a, b)
      [] gate_type = "NAND" -> NAND(a, b)
      [] gate_type = "NOR" -> NOR(a, b)
      [] gate_type = "XNOR" -> XNOR(a, b)

\* f"Input {i}"
InputName(i) ==
    CASE i = 1 -> "Input 1"
      [] i = 2 -> "Input 2"
      [] i = 3 -> "Input 3"
      [] i = 4 -> "Input 4"
      [] OTHER -> "Input 5"

\* input_options = [f"Input {i}" for i in range(1, 6)], the first NumInputNames of them
input_options == {InputName(i) : i \in 1..NumInputNames}

\* the test `"Input" in node` of the sidebar loop, on a node id
IsInputId(id) == id[1] \in input_options

\* ------------------------------------------------------------ the graph
\* graph.predecessors(node): sources of the wires into node, in insertion order
RECURSIVE SourcesInto(_, _)
SourcesInto(edges, node) ==
    IF edges = <<>> THEN <<>>
    ELSE IF Head(edges)[2] = node
         THEN <<Head(edges)[1]>> \o SourcesInto(Tail(edges), node)
         ELSE SourcesInto(Tail(edges), node)

\* faulty variant: the sources in the order the nodes were created
predecessors_by_creation(graph, node) ==
    SelectSeq(graph.node, LAMBDA u : <<u, node>> \in Range(graph.edge))

predecessors(graph, node) == SourcesInto(graph.edge, node)

\* graph.neighbors(node): destinations of the wires out of node, in insertion order
RECURSIVE TargetsFrom(_, _)
TargetsFrom(edges, node) ==
    IF edges = <<>> THEN <<>>
    ELSE IF Head(edges)[1] = node
         THEN <<Head(edges)[2]>> \o TargetsFrom(Tail(edges), node)
         ELSE TargetsFrom(Tail(edges), node)

\* the children of a whole generation, in the order the inner loops visit them
RECURSIVE ChildrenOf(_, _)
ChildrenOf(graph, generation) ==
    IF generation = <<>> THEN <<>>
    ELSE TargetsFrom(graph.edge, Head(generation)) \o ChildrenOf(graph, Tail(generation))

in_degree(graph, v) == Len(SourcesInto(graph.edge, v))

\* the inner loop of topological_generations: indegree_map[child] -= 1, and a child
\* that reaches 0 joins the next generation
RECURSIVE Relax(_, _, _)
Relax(children, indegree_map, zero_indegree) ==
    IF children = <<>> THEN [indegree_map |-> indegree_map, zero_indegree |-> zero_indegree]
    ELSE LET child == Head(children)
             d == indegree_map[child] - 1
         IN Relax(Tail(children),
                  [indegree_map EXCEPT ![child] = d],
                  IF d = 0 THEN Append(zero_indegree, child) ELSE zero_indegree)

\* nx.topological_generations, flattened as nx.topological_sort does: the nodes in the
\* order the generator yields them, and whether it ends by raising NetworkXUnfeasible
\* (some node keeps a positive in-degree), which happens after the last node is yielded
RECURSIVE topological_generations(_, _, _, _)
topological_generations(graph, indegree_map, zero_indegree, yielded) ==
    IF zero_indegree = <<>>
    THEN [order |-> yielded,
          unfeasible |-> \E v \in DOMAIN indegree_map : indegree_map[v] > 0]
    ELSE LET r == Relax(ChildrenOf(graph, zero_indegree), indegree_map, <<>>)
         IN topological_generations(graph, r.indegree_map, r.zero_indegree,
                                    yielded \o zero_indegree)

topological_sort(graph) ==
    topological_generations(
        graph,
        [v \in Range(graph.node) |-> in_degree(graph, v)],
        SelectSeq(graph.node, LAMBDA v : in_degree(graph, v) = 0),
        <<>>)

\* ------------------------------------------------------ compute_output
\* faulty variant: a node that has wires into it is evaluated from them even when it
\* has a value already
RECURSIVE Propagate_overriding(_, _, _, _)
Propagate_overriding(order, graph, kinds, values) ==
    IF order = <<>> THEN [error |-> "none", node_values |-> values]
    ELSE LET node == Head(order)
             preds == predecessors(graph, node)
             gate_type == kinds[node]
             set(v) == Propagate_overriding(Tail(order), graph, kinds,
                                            (node :> v) @@ values)
         IN IF node \in DOMAIN values /\ preds = <<>>
            THEN Propagate_overriding(Tail(order), graph, kinds, values)
            ELSE IF ~(Range(preds) \subseteq DOMAIN values)
            THEN [error |-> "KeyError", node_values |-> values]
            ELSE IF gate_type = "NOT" /\ Len(preds) = 1
            THEN set(NOT(values[preds[1]]))
            ELSE IF Len(preds) = 2 /\ gate_type \in GateKinds \ {"NOT"}
            THEN set(gate_functions(gate_type, values[preds[1]], values[preds[2]]))
            ELSE set(0)

\* the loop of compute_output over the nodes the topological sort yields; it ends
\* early when a statement of the body raises
RECURSIVE Propagate(_, _, _, _)
Propagate(order, graph, kinds, values) ==
    IF order = <<>> THEN [error |-> "none", node_values |-> values]
    ELSE LET node == Head(order)
             preds == predecessors(graph, node)
             gate_type == kinds[node]
         IN IF node \in DOMAIN values
            THEN Propagate(Tail(order), graph, kinds, values)
            ELSE IF gate_type = "NOT" /\ Len(preds) = 1
            THEN IF preds[1] \notin DOMAIN values
                 THEN [error |-> "KeyError", node_values |-> values]
                 ELSE Propagate(Tail(order), graph, kinds,
                                values @@ (node :> NOT(values[preds[1]])))
            ELSE IF Len(preds) = 2
            THEN IF preds[1] \notin DOMAIN values \/ preds[2] \notin DOMAIN values
                 THEN [error |-> "KeyError", node_values |-> values]
                 ELSE IF gate_type = "NOT"  \* NOT(a, b): one parameter, two arguments
                 THEN [error |-> "TypeError", node_values |-> values]
                 ELSE Propagate(Tail(order), graph, kinds,
                                values @@ (node :> gate_functions(gate_type, values[preds[1]],
                                                                  values[preds[2]])))
            ELSE Propagate(Tail(order), graph, kinds, values @@ (node :> 0))

\* faulty variant: node_values = inputs without the copy, the caller's mapping gets
\* every value the loop computes
compute_output_aliased(graph, inputs, kinds) ==
    LET topo == topological_sort(graph)
        raised(run) ==
            [error |-> IF run.error = "none" /\ topo.unfeasible
                       THEN "NetworkXUnfeasible" ELSE run.error,
             node_values |-> run.node_values,
             inputs |-> run.node_values]
    IN raised(Propagate(topo.order, graph, kinds, inputs))

\* compute_output(graph, inputs), reading st.session_state.nodes as kinds: the local
\* node_values when the call ends, the exception that ended it ("none": it returned)
\* and the caller's mapping after the call (node_values is a copy, inputs is only read)
compute_output(graph, inputs, kinds) ==
    LET topo == topological_sort(graph)
        raised(run) ==
            [error |-> IF run.error = "none" /\ topo.unfeasible
                       THEN "NetworkXUnfeasible" ELSE run.error,
             node_values |-> run.node_values,
             inputs |-> inputs]
    IN raised(Propagate(topo.order, graph, kinds, inputs))

\* ------------------------------------------------- the script of app.py
\* The sidebar loop: input_values[input_node] = checkbox, for every Input node; the
\* other entries of the mapping stay. A checkbox keeps the value the user gave it for
\* as long as it is drawn in every run, and one drawn for the first time is unchecked
\* (value=False).
InputControls(kinds, checkboxes) ==
    [n \in DOMAIN checkboxes \cup {m \in DOMAIN kinds : IsInputId(m)} |->
        IF n \in DOMAIN checkboxes THEN checkboxes[n] ELSE 0]

\* The history variable after an evaluation: it keeps the record it holds while the
\* graph stays as it is (noting whether the inputs have since differed from the
\* recorded ones), or takes a record of this evaluation (noting whether the run
\* took nodes out of the graph).
Snapshots(graph, inputs, err, returned) ==
    {<<[graph |-> graph, inputs |-> inputs, error |-> err, output |-> returned,
        strayed |-> FALSE,
        emptied |-> Len(graph.node) < Len(circuit_graph.node)]>>}
    \cup (IF graph = circuit_graph /\ snapshot # NoSnapshot
          THEN {<<[snapshot[1] EXCEPT !.strayed = @ \/ inputs # snapshot[1].inputs]>>}
          ELSE {})

\* The rest of a script run once the button handlers are done: the sidebar loop sets
\* input_values, then output_values = compute_output(circuit_graph, input_values).
RunScript(kinds, graph, inputs, evaluated) ==
    \E run \in {compute_output(graph, evaluated, kinds)} :
    \E returned \in {IF run.error = "none" THEN <<run.node_values>> ELSE NoMapping} :
        /\ nodes' = kinds
        /\ circuit_graph' = graph
        /\ input_values' = inputs @@ run.inputs
        /\ node_values' = run.node_values
        /\ error' = run.error
        /\ output_values' = returned
        /\ snapshot' \in Snapshots(graph, inputs, run.error, returned)
        /\ UNCHANGED <<components, simVars>>

\* faulty variant: evaluates before the sidebar loop has refreshed input_values
FinishRun_stale(kinds, graph, checkboxes) ==
    RunScript(kinds, graph, InputControls(kinds, checkboxes),
              InputControls(kinds, input_values))

FinishRun(kinds, graph, checkboxes) ==
    RunScript(kinds, graph, InputControls(kinds, checkboxes),
              InputControls(kinds, checkboxes))

\* graph.add_node(node_id): a node already in the graph stays where it is
add_node(graph, node_id) ==
    IF node_id \in Range(graph.node) THEN graph
    ELSE [graph EXCEPT !.node = Append(@, node_id)]

\* faulty variant: every call appends a wire, as a multigraph would
add_edge_parallel(graph, u, v) ==
    [graph EXCEPT !.edge = Append(@, <<u, v>>)]

\* graph.add_edge(u, v): a wire already in the graph stays where it is
add_edge(graph, u, v) ==
    IF <<u, v>> \in Range(graph.edge) THEN graph
    ELSE [graph EXCEPT !.edge = Append(@, <<u, v>>)]

\* nodes[node_id] = kind
SetKind(kinds, node_id, kind) ==
    [n \in DOMAIN kinds \cup {node_id} |-> IF n = node_id THEN kind ELSE kinds[n]]

\* the options of the "From" and "To" select boxes; an empty select box returns None
NodeOptions == IF DOMAIN nodes = {} THEN {None} ELSE DOMAIN nodes

\* a run started by the "Add Gate" button
AddGate ==
    \E selected_gate \in GateKinds, r \in IdNums :
        LET node_id == <<selected_gate, r>>
        IN /\ node_id \in DOMAIN nodes \/ Len(circuit_graph.node) < MaxNodes
           /\ FinishRun(SetKind(nodes, node_id, selected_gate),
                        add_node(circuit_graph, node_id),
                        input_values)

\* a run started by the "Add Input" button
AddInput ==
    \E selected_input \in input_options, r \in IdNums :
        LET node_id == <<selected_input, r>>
        IN /\ node_id \in DOMAIN nodes \/ Len(circuit_graph.node) < MaxNodes
           /\ FinishRun(SetKind(nodes, node_id, "Input"),
                        add_node(circuit_graph, node_id),
                        input_values)

\* a run started by the "Connect Nodes" button
AddConnection ==
    \E node1 \in NodeOptions, node2 \in NodeOptions :
        /\ \/ node1 = node2
           \/ <<node1, node2>> \in Range(circuit_graph.edge)
           \/ Len(circuit_graph.edge) < MaxEdges
        /\ FinishRun(nodes,
                     IF node1 # node2 THEN add_edge(circuit_graph, node1, node2)
                     ELSE circuit_graph,
                     input_values)

\* faulty variant: leaves out st.session_state.nodes = {}
ClearCircuit_keeps_nodes ==
    FinishRun(nodes, EmptyGraph, EmptyMap)

\* faulty variant: leaves out st.session_state.input_values = {}
ClearCircuit_keeps_inputs ==
    FinishRun(EmptyMap, EmptyGraph, input_values)

\* a run started by the "Clear Circuit" button
ClearCircuit ==
    FinishRun(EmptyMap, EmptyGraph, EmptyMap)

\* a run started by ticking or unticking the checkbox of an Input node
ToggleInput ==
    \E input_node \in DOMAIN input_values :
        FinishRun(nodes, circuit_graph,
                  [input_values EXCEPT ![input_node] = 1 - @])

\* a run started by a widget that changes nothing the script stores (a select box)
Rerun ==
    FinishRun(nodes, circuit_graph, input_values)

\* the session state before the first run of any script
Init ==
    /\ nodes = EmptyMap
    /\ circuit_graph = EmptyGraph
    /\ input_values = EmptyMap
    /\ node_values = EmptyMap
    /\ error = "none"
    /\ output_values = <<EmptyMap>>
    /\ snapshot = NoSnapshot
    /\ components = [seq |-> EmptyMap, values |-> EmptyMap, clock |-> 0]
    /\ d_ff = [d_ff_q |-> 0, d_ff_q_not |-> 1, prev_clock |-> 0]
    /\ d_sample = [d_input |-> 0, clock |-> 0]
    /\ jk_ff = [absent |-> TRUE]
    /\ jk_sample = [j_input |-> 0, k_input |-> 0, clock_input |-> 0]
    /\ flip_flop = [state |-> 0, prev_clk |-> 0]
    /\ update_args = [D |-> 0, clk |-> 0]
    /\ arduino = [inputA |-> 0, inputB |-> 0, output |-> 0]
    /\ served = <<>>
    /\ fw_snapshot = <<>>
    /\ call = <<>>
    /\ ser = None
    /\ hardware_connected = FALSE
    /\ response = <<>>
    /\ sr_sample = [latch |-> "none"]
    /\ shift_register_state = <<0, 0, 0, 0>>
    /\ shift_sample = [shift_right |-> 0, shift_left |-> 0, data_input |-> 0]
    /\ adder = [experiment |-> "none"]
    /\ waveform_data = [Time |-> <<>>, Inputs |-> EmptyMap, Outputs |-> EmptyMap]
    /\ serial_port = [is_open |-> FALSE, in_waiting |-> <<>>]
    /\ queue = <<>>
    /\ hardware_led_label = None
    /\ after = "none"
    /\ gui = [constructed |-> FALSE]

Next ==
    \/ AddGate
    \/ AddInput
    \/ AddConnection
    \/ ClearCircuit
    \/ ToggleInput
    \/ Rerun

Spec == Init /\ [][Next]_vars

\* ------------------------------------------- sequential components (test.py)
\* DFlipFlop.__init__
DFlipFlop == [state |-> 0, prev_clk |-> 0]

\* faulty variant: level-triggered, stores D whenever the clock is 1
update_level(self, D, clk) ==
    [state |-> IF clk = 1 THEN D ELSE self.state, prev_clk |-> clk]

\* DFlipFlop.update(D, clk): the object after the call; the call returns its state
update(self, D, clk) ==
    [state |-> IF clk > self.prev_clk /\ clk = 1 THEN D ELSE self.state,
     prev_clk |-> clk]

\* Counter.__init__
Counter == [count |-> 0]

\* the lists of the "Select Component" select box
Components ==
    {"AND", "OR", "NOT", "XOR", "DFF", "JKFF", "COUNTER", "INPUT", "OUTPUT", "7SEG"}

Sequential == {"DFF", "JKFF", "COUNTER"}

AdvIdNums == 1..NumAdvIds

\* int(all(inputs)) and int(any(inputs)) over the values of the nodes in preds
all_of(preds, values) == IF \A i \in 1..Len(preds) : values[preds[i]] = 1 THEN 1 ELSE 0
any_of(preds, values) == IF \E i \in 1..Len(preds) : values[preds[i]] = 1 THEN 1 ELSE 0

\* ------------------------------------------------ compute_circuit (test.py)
\* the loop of compute_circuit over the nodes the topological sort yields: the local
\* values, the objects of components["seq"] (update changes them in place) and the
\* exception that ended the loop early, if any
RECURSIVE Simulate(_, _, _, _, _)
Simulate(order, graph, kinds, values, seq) ==
    IF order = <<>> THEN [error |-> "none", values |-> values, seq |-> seq]
    ELSE LET node == Head(order)
             comp_type == kinds[node]
             preds == predecessors(graph, node)
             raise(e) == [error |-> e, values |-> values, seq |-> seq]
             set(v) == Simulate(Tail(order), graph, kinds, values @@ (node :> v), seq)
             skip == Simulate(Tail(order), graph, kinds, values, seq)
         IN IF node \in DOMAIN values THEN skip
            ELSE IF comp_type \in Sequential
            THEN IF comp_type = "DFF" /\ Len(preds) >= 2
                 THEN IF preds[1] \notin DOMAIN values \/ preds[2] \notin DOMAIN values
                      THEN raise("KeyError")
                      ELSE LET ff == update(seq[node], values[preds[1]], values[preds[2]])
                           IN Simulate(Tail(order), graph, kinds,
                                       values @@ (node :> ff.state),
                                       [seq EXCEPT ![node] = ff])
                 ELSE skip
            ELSE IF ~(Range(preds) \subseteq DOMAIN values) THEN raise("KeyError")
            ELSE IF comp_type = "AND" THEN set(all_of(preds, values))
            ELSE IF comp_type = "OR" THEN set(any_of(preds, values))
            ELSE IF comp_type = "NOT"
            THEN IF preds = <<>> THEN raise("IndexError")
                 ELSE set(NOT(values[preds[1]]))
            ELSE skip

\* compute_circuit(): how the call ended, the values in the store after it (the old
\* ones if it raised, the assignment being its last line) and the objects of the store
compute_circuit(graph, kinds, comps) ==
    LET topo == topological_sort(graph)
        ended(run) ==
            IF run.error # "none"
            THEN [error |-> run.error, values |-> comps.values, seq |-> run.seq]
            ELSE IF topo.unfeasible
                 THEN [error |-> "NetworkXUnfeasible", values |-> comps.values,
                       seq |-> run.seq]
                 ELSE run
    IN ended(Simulate(topo.order, graph, kinds, comps.values, comps.seq))

\* the "Input Management" loop at the end of the script: the value of every INPUT
\* node is the value of its checkbox, unchecked when drawn for the first time
InputManagement(kinds, values) ==
    [n \in DOMAIN values \cup {m \in DOMAIN kinds : kinds[m] = "INPUT"} |->
        IF n \in DOMAIN values THEN values[n] ELSE 0]

\* components["seq"][node_id] = made
SetObject(seq, node_id, made) ==
    [n \in DOMAIN seq \cup {node_id} |-> IF n = node_id THEN made ELSE seq[n]]

\* the lists of at most MaxTargets distinct nodes a "To" multiselect can hold
Targets ==
    {t \in UNION {[1..k -> DOMAIN nodes] : k \in 0..MaxTargets} :
        \A i, j \in DOMAIN t : i # j => t[i] # t[j]}

\* for target in targets: graph.add_edge(source, target)
RECURSIVE add_edges(_, _, _)
add_edges(graph, source, targets) ==
    IF targets = <<>> THEN graph
    ELSE add_edges(add_edge(graph, source, Head(targets)), source, Tail(targets))

\* a run started by the "Add Component" button
AddComponent ==
    \E component \in Components, r \in AdvIdNums :
        LET node_id == <<component, r>>
        IN /\ node_id \in DOMAIN nodes \/ Len(circuit_graph.node) < MaxAdvNodes
           /\ nodes' = SetKind(nodes, node_id, component)
           /\ circuit_graph' = add_node(circuit_graph, node_id)
           /\ components' =
                [components EXCEPT
                   !.seq = IF component \in Sequential
                           THEN SetObject(@, node_id,
                                          IF component = "COUNTER" THEN Counter
                                          ELSE DFlipFlop)
                           ELSE @,
                   !.values = InputManagement(nodes', @)]
           /\ error' = "none"
           /\ UNCHANGED <<appVars, simVars>>

\* a run started by the "Connect" button
Connect ==
    \E source \in DOMAIN nodes, targets \in Targets :
        \E graph \in {add_edges(circuit_graph, source, targets)} :
            /\ Len(graph.edge) <= MaxAdvEdges
            /\ circuit_graph' = graph
            /\ error' = "none"
            /\ UNCHANGED <<nodes, components, appVars, simVars>>

\* a run started by the "Clock Cycle" button
ClockCycle ==
    /\ components.clock < MaxClock
    /\ \E run \in {compute_circuit(circuit_graph, nodes, components)} :
          /\ components' = [seq |-> run.seq, values |-> run.values,
                            clock |-> components.clock + 1]
          /\ error' = run.error
    /\ UNCHANGED <<nodes, circuit_graph, appVars, simVars>>

\* a run started by ticking or unticking the checkbox of an INPUT node
ToggleCheckbox ==
    \E node \in {n \in DOMAIN nodes : nodes[n] = "INPUT"} :
        /\ components' = [components EXCEPT !.values[node] = 1 - @]
        /\ error' = "none"
        /\ UNCHANGED <<nodes, circuit_graph, appVars, simVars>>

AdvNext ==
    \/ AddComponent
    \/ Connect
    \/ ClockCycle
    \/ ToggleCheckbox

SpecAdv == Init /\ [][AdvNext]_vars

\* ------------------------------------------------ simulators (logic.py)
\* a run of d_flip_flop_simulator that reads the toggles d_input and clock
d_flip_flop_simulator ==
    \E d_input \in Bit, clock \in Bit :
        LET rising_edge == d_ff.prev_clock = 0 /\ clock = 1
        IN /\ d_ff' = [d_ff_q |-> IF rising_edge THEN d_input ELSE d_ff.d_ff_q,
                       d_ff_q_not |-> IF rising_edge THEN NOT(d_input)
                                      ELSE d_ff.d_ff_q_not,
                       prev_clock |-> clock]
           /\ d_sample' = [d_input |-> d_input, clock |-> clock]
           /\ UNCHANGED <<nodes, circuit_graph, error, appVars, components,
                          jk_ff, jk_sample, flip_flop, update_args, fwVars, hwVars, labVars, guiVars>>

\* if "q_state" not in st.session_state: the two keys get the caller's defaults
state_tracking(session, q, q_not) ==
    IF "q_state" \in DOMAIN session THEN session
    ELSE [q_state |-> q, q_not_state |-> q_not]

\* a run of master_slave_jk_flip_flop_simulator that reads the three toggles
master_slave_jk_flip_flop_simulator ==
    \E j_input \in Bit, k_input \in Bit, clock_input \in Bit :
        /\ jk_ff' =
             LET session == state_tracking(jk_ff, 0, 1)
             IN IF clock_input = 1
                THEN IF j_input = 1 /\ k_input = 0
                     THEN [q_state |-> 1, q_not_state |-> 0]
                     ELSE IF j_input = 0 /\ k_input = 1
                     THEN [q_state |-> 0, q_not_state |-> 1]
                     ELSE IF j_input = 1 /\ k_input = 1
                     THEN [q_state |-> 1 - session.q_state,
                           q_not_state |-> 1 - session.q_not_state]
                     ELSE session
                ELSE session
        /\ jk_sample' = [j_input |-> j_input, k_input |-> k_input,
                         clock_input |-> clock_input]
        /\ UNCHANGED <<nodes, circuit_graph, error, appVars, components,
                       d_ff, d_sample, flip_flop, update_args, fwVars, hwVars, labVars, guiVars>>

\* a call of update on the DFlipFlop object
UpdateCall ==
    \E D \in Bit, clk \in Bit :
        /\ flip_flop' = update(flip_flop, D, clk)
        /\ update_args' = [D |-> D, clk |-> clk]
        /\ UNCHANGED <<nodes, circuit_graph, error, appVars, components,
                       d_ff, d_sample, jk_ff, jk_sample, fwVars, hwVars, labVars, guiVars>>

SimNext ==
    \/ d_flip_flop_simulator
    \/ master_slave_jk_flip_flop_simulator
    \/ UpdateCall

SpecSim == Init /\ [][SimNext]_vars

\* ------------------------------------- latches and registers (logic.py)
\* The runs below are runs in Simulation Mode; in the other modes these
\* simulators read no toggle and store nothing.  The log kept by log_data is
\* followed in SpecLab.

\* the if-chain of sr_latch_nand_simulator with Set and Reset exchanged
nand_latch_swapped(session, set_input, reset_input) ==
    IF set_input = 0 /\ reset_input = 0
    THEN [q_state |-> 1, q_not_state |-> 1]
    ELSE IF set_input = 0 /\ reset_input = 1
    THEN [q_state |-> 0, q_not_state |-> 1]
    ELSE IF set_input = 1 /\ reset_input = 0
    THEN [q_state |-> 1, q_not_state |-> 0]
    ELSE session

\* the if-chain of sr_latch_nand_simulator over the toggles S-bar and R-bar
nand_latch(session, set_input, reset_input) ==
    IF set_input = 0 /\ reset_input = 0
    THEN [q_state |-> 1, q_not_state |-> 1]
    ELSE IF set_input = 0 /\ reset_input = 1
    THEN [q_state |-> 1, q_not_state |-> 0]
    ELSE IF set_input = 1 /\ reset_input = 0
    THEN [q_state |-> 0, q_not_state |-> 1]
    ELSE session

\* the if-chain of sr_latch_nor_simulator over the toggles S and R
nor_latch(session, set_input, reset_input) ==
    IF set_input = 1 /\ reset_input = 1
    THEN [q_state |-> 0, q_not_state |-> 0]
    ELSE IF set_input = 1 /\ reset_input = 0
    THEN [q_state |-> 1, q_not_state |-> 0]
    ELSE IF set_input = 0 /\ reset_input = 1
    THEN [q_state |-> 0, q_not_state |-> 1]
    ELSE session

\* a run of sr_latch_nand_simulator that reads the two toggles
sr_latch_nand_simulator ==
    \E set_input \in Bit, reset_input \in Bit :
        /\ jk_ff' = nand_latch(state_tracking(jk_ff, 1, 0), set_input, reset_input)
        /\ sr_sample' = [latch |-> "NAND", set_input |-> set_input,
                         reset_input |-> reset_input]
        /\ UNCHANGED <<nodes, circuit_graph, error, appVars, components,
                       d_ff, d_sample, jk_sample, flip_flop, update_args,
                       fwVars, hwVars, shift_register_state, shift_sample,
                       adder, waveform_data, guiVars>>

\* a run of sr_latch_nor_simulator that reads the two toggles
sr_latch_nor_simulator ==
    \E set_input \in Bit, reset_input \in Bit :
        /\ jk_ff' = nor_latch(state_tracking(jk_ff, 0, 1), set_input, reset_input)
        /\ sr_sample' = [latch |-> "NOR", set_input |-> set_input,
                         reset_input |-> reset_input]
        /\ UNCHANGED <<nodes, circuit_graph, error, appVars, components,
                       d_ff, d_sample, jk_sample, flip_flop, update_args,
                       fwVars, hwVars, shift_register_state, shift_sample,
                       adder, waveform_data, guiVars>>

\* the shift of shift_register_simulator with Shift Left rotating the register
shift_rotating(state, shift_right, shift_left, data_input) ==
    IF shift_right = 1 /\ shift_left = 0
    THEN <<data_input>> \o SubSeq(state, 1, Len(state) - 1)
    ELSE IF shift_right = 0 /\ shift_left = 1
    THEN SubSeq(state, 2, Len(state)) \o <<state[1]>>
    ELSE state

\* the if-chain of shift_register_simulator: [data_input] + state[:-1],
\* state[1:] + [data_input], or nothing
shift(state, shift_right, shift_left, data_input) ==
    IF shift_right = 1 /\ shift_left = 0
    THEN <<data_input>> \o SubSeq(state, 1, Len(state) - 1)
    ELSE IF shift_right = 0 /\ shift_left = 1
    THEN SubSeq(state, 2, Len(state)) \o <<data_input>>
    ELSE state

\* a run of shift_register_simulator that reads the three toggles
shift_register_simulator ==
    \E shift_right \in Bit, shift_left \in Bit, data_input \in Bit :
        /\ shift_register_state' =
               shift(shift_register_state, shift_right, shift_left, data_input)
        /\ shift_sample' = [shift_right |-> shift_right, shift_left |-> shift_left,
                            data_input |-> data_input]
        /\ UNCHANGED <<nodes, circuit_graph, error, appVars, components,
                       d_ff, d_sample, jk_ff, jk_sample, flip_flop, update_args,
                       fwVars, hwVars, sr_sample, adder, waveform_data, guiVars>>

LatchNext ==
    \/ sr_latch_nand_simulator
    \/ sr_latch_nor_simulator
    \/ master_slave_jk_flip_flop_simulator
    \/ d_flip_flop_simulator
    \/ shift_register_simulator

SpecLatch == Init /\ [][LatchNext]_vars

\* ---------------------------------- adders, subtractors and the log (logic.py)
\* The gate functions the four simulators call are the last definitions of
\* these names before the call of the selected simulator: a ^ b, a & b, a | b
\* and 1 - a, applied to int(toggle).
XOR_gate(a, b) == (a + b) % 2
AND_gate_inclusive(a, b) == IF a + b > 0 THEN 1 ELSE 0
AND_gate(a, b) == a * b
OR_gate(a, b) == IF a + b > 0 THEN 1 ELSE 0
NOT_gate(a) == 1 - a

\* st.toggle gives a bool, which the simulators pass through int()
Toggle == BOOLEAN
int(toggle) == IF toggle THEN 1 ELSE 0

half_adder(in1, in2) ==
    LET sum_result == XOR_gate(in1, in2)
        carry_result == AND_gate(in1, in2)
    IN ("Sum" :> sum_result) @@ ("Carry" :> carry_result)

full_adder(in1, in2, c_in) ==
    LET sum1 == XOR_gate(in1, in2)
        carry1 == AND_gate(in1, in2)
        sum_final == XOR_gate(sum1, c_in)
        carry2 == AND_gate(sum1, c_in)
        carry_final == OR_gate(carry1, carry2)
    IN ("Sum" :> sum_final) @@ ("Carry Out" :> carry_final)

half_subtractor(in1, in2) ==
    LET difference == XOR_gate(in1, in2)
        borrow == AND_gate(NOT_gate(in1), in2)
    IN ("Difference" :> difference) @@ ("Borrow" :> borrow)

full_subtractor(in1, in2, borrow_in) ==
    LET difference == XOR_gate(XOR_gate(in1, in2), borrow_in)
        borrow == OR_gate(AND_gate(NOT_gate(in1), in2),
                          AND_gate(NOT_gate(XOR_gate(in1, in2)), borrow_in))
    IN ("Difference" :> difference) @@ ("Borrow Out" :> borrow)

\* the waveform part of log_data: one more time step, and the value of every
\* key of the call appended to the key's list, which is created empty when new
log_series(series, dict) ==
    [key \in DOMAIN series \cup DOMAIN dict |->
        IF key \in DOMAIN dict
        THEN Append(IF key \in DOMAIN series THEN series[key] ELSE <<>>, dict[key])
        ELSE series[key]]

log_data(data, inputs, outputs) ==
    LET time_step == Len(data.Time)
    IN [Time |-> Append(data.Time, time_step),
        Inputs |-> log_series(data.Inputs, inputs),
        Outputs |-> log_series(data.Outputs, outputs)]

\* the interactive part of an adder or subtractor simulator in Simulation
\* Mode: compute, show, log
interactive_simulation(experiment_name, inputs, outputs) ==
    /\ Len(waveform_data.Time) < MaxLog
    /\ adder' = [experiment |-> experiment_name, inputs |-> inputs,
                 outputs |-> outputs]
    /\ waveform_data' = log_data(waveform_data, inputs, outputs)
    /\ UNCHANGED <<nodes, circuit_graph, error, appVars, components,
                   d_ff, d_sample, jk_ff, jk_sample, flip_flop, update_args,
                   fwVars, hwVars, sr_sample, shift_register_state, shift_sample,
                   guiVars>>

half_adder_simulator ==
    \E in1 \in Toggle, in2 \in Toggle :
        interactive_simulation("Half Adder",
                               ("Input A" :> int(in1)) @@ ("Input B" :> int(in2)),
                               half_adder(int(in1), int(in2)))

full_adder_simulator ==
    \E in1 \in Toggle, in2 \in Toggle, c_in \in Toggle :
        interactive_simulation("Full Adder",
                               ("Input A" :> int(in1)) @@ ("Input B" :> int(in2))
                                   @@ ("Carry In" :> int(c_in)),
                               full_adder(int(in1), int(in2), int(c_in)))

half_subtractor_simulator ==
    \E in1 \in Toggle, in2 \in Toggle :
        interactive_simulation("Half Subtractor",
                               ("Input A" :> int(in1)) @@ ("Input B" :> int(in2)),
                               half_subtractor(int(in1), int(in2)))

full_subtractor_simulator ==
    \E in1 \in Toggle, in2 \in Toggle, borrow_in \in Toggle :
        interactive_simulation("Full Subtractor",
                               ("Input A" :> int(in1)) @@ ("Input B" :> int(in2))
                                   @@ ("Borrow In" :> int(borrow_in)),
                               full_subtractor(int(in1), int(in2), int(borrow_in)))

LabNext ==
    \/ half_adder_simulator
    \/ full_adder_simulator
    \/ half_subtractor_simulator
    \/ full_subtractor_simulator

SpecLab == Init /\ [][LabNext]_vars

\* ------------------------------------------- the firmware (arduino.py)
\* A request is the document deserializeJson makes of the line read: [json |-> FALSE]
\* for a line that is not JSON, else the members the sketch reads. UnknownGate stands
\* for every gate_type that is none of the seven names the sketch compares with.
UnknownGate == "BUFFER"

InputLists == [1..1 -> Bit] \cup [1..2 -> Bit]

Docs ==
    {[json |-> FALSE]}
    \cup {[json |-> TRUE, operation |-> "PING"]}
    \cup [json : {TRUE}, operation : {"GATE"},
          gate_type : GateKinds \cup {UnknownGate}, inputs : InputLists]

\* inputs[i].as<int>(): 0 for an element the array does not have
as_int(inputs, i) == IF i + 1 <= Len(inputs) THEN inputs[i + 1] ELSE 0

\* the operators !, && and || of C on ints
c_not(a) == IF a = 0 THEN 1 ELSE 0
c_and(a, b) == IF a # 0 /\ b # 0 THEN 1 ELSE 0
c_or(a, b) == IF a # 0 \/ b # 0 THEN 1 ELSE 0

\* faulty variant: XOR computed as inputA || inputB
GateChain_or(gateType, inputA, inputB, output) ==
    CASE gateType = "AND" -> c_and(inputA, inputB)
      [] gateType = "OR" -> c_or(inputA, inputB)
      [] gateType = "XOR" -> c_or(inputA, inputB)
      [] gateType = "NAND" -> c_not(c_and(inputA, inputB))
      [] gateType = "NOR" -> c_not(c_or(inputA, inputB))
      [] gateType = "XNOR" -> IF inputA = inputB THEN 1 ELSE 0
      [] gateType = "NOT" -> c_not(inputA)
      [] OTHER -> output

\* the if / else if chain of loop(): the global output after it; no branch assigns
\* it when gateType matches none of the names
GateChain(gateType, inputA, inputB, output) ==
    CASE gateType = "AND" -> c_and(inputA, inputB)
      [] gateType = "OR" -> c_or(inputA, inputB)
      [] gateType = "XOR" -> IF inputA # inputB THEN 1 ELSE 0
      [] gateType = "NAND" -> c_not(c_and(inputA, inputB))
      [] gateType = "NOR" -> c_not(c_or(inputA, inputB))
      [] gateType = "XNOR" -> IF inputA = inputB THEN 1 ELSE 0
      [] gateType = "NOT" -> c_not(inputA)
      [] OTHER -> output

\* the lines the sketch prints (Serial.println), without the line end
InvalidJsonLine == "{\"status\": \"ERROR\", \"message\": \"Invalid JSON\"}"
PongLine == "{\"status\": \"OK\", \"message\": \"PONG\"}"

\* "{\"status\": \"OK\", \"output\": " + String(output) + "}"
OkLine(output) ==
    IF output = 0 THEN "{\"status\": \"OK\", \"output\": 0}"
    ELSE "{\"status\": \"OK\", \"output\": 1}"

\* one pass of loop() with a line available: the globals after it and the line printed
loop(globals, doc) ==
    IF ~doc.json THEN [globals |-> globals, line |-> InvalidJsonLine]
    ELSE IF doc.operation = "GATE"
    THEN LET inputA == as_int(doc.inputs, 0)
             inputB == as_int(doc.inputs, 1)
             output == GateChain(doc.gate_type, inputA, inputB, globals.output)
         IN [globals |-> [inputA |-> inputA, inputB |-> inputB, output |-> output],
             line |-> OkLine(output)]
    ELSE IF doc.operation = "PING" THEN [globals |-> globals, line |-> PongLine]
    ELSE [globals |-> globals, line |-> ""]

\* the history variable after a request: it keeps the record it holds or takes the
\* request and the line printed just before this one
FwSnapshots == {fw_snapshot} \cup (IF served = <<>> THEN {} ELSE {served})

\* the sketch serves the request doc
Serve(doc) ==
    LET ran == loop(arduino, doc) IN
        /\ arduino' = ran.globals
        /\ served' = <<[doc |-> doc, line |-> ran.line]>>
        /\ fw_snapshot' \in FwSnapshots

\* a request arrives on the serial line
Request ==
    /\ \E doc \in Docs : Serve(doc)
    /\ UNCHANGED <<nodes, circuit_graph, error, appVars, components,
                   d_ff, d_sample, jk_ff, jk_sample, flip_flop, update_args, hwVars,
                   labVars, guiVars>>

FwNext == Request

SpecFw == Init /\ [][FwNext]_vars

\* ------------------------------- send_arduino_command (logic.py, updated/app.py)
\* an open serial.Serial object
Port == "Serial"

\* what readline can return besides a line of the sketch: bytes that are not UTF-8,
\* a line of white space only, a line that is not JSON
Undecodable == "<bytes that are not UTF-8>"
BlankLine == " "
NoiseLine == "garbage"

\* .decode('utf-8')
decode(bytes) ==
    IF bytes = Undecodable THEN [raised |-> "UnicodeDecodeError", text |-> ""]
    ELSE [raised |-> "none", text |-> bytes]

\* .strip()
strip(text) == IF text = BlankLine THEN "" ELSE text

\* json.loads on the lines that can arrive
json_loads(text) ==
    CASE text = OkLine(0) ->
           [raised |-> "none", value |-> <<[status |-> "OK", output |-> 0]>>]
      [] text = OkLine(1) ->
           [raised |-> "none", value |-> <<[status |-> "OK", output |-> 1]>>]
      [] text = PongLine ->
           [raised |-> "none", value |-> <<[status |-> "OK", message |-> "PONG"]>>]
      [] text = InvalidJsonLine ->
           [raised |-> "none", value |-> <<[status |-> "ERROR", message |-> "Invalid JSON"]>>]
      [] OTHER -> [raised |-> "JSONDecodeError", value |-> <<>>]

\* the document the sketch makes of json.dumps(command) + "\n"
command(gate_type, inputs) ==
    [json |-> TRUE, operation |-> "GATE", gate_type |-> gate_type, inputs |-> inputs]

\* how a call ends: it returns a value or an exception leaves it
return(value) == [raised |-> "none", returned |-> <<value>>]
raise(exception) == [raised |-> exception, returned |-> <<>>]

\* faulty variant: without the outer try, the exceptions of the port leave the call
send_arduino_command_unguarded(ser_, gate_type, inputs, port) ==
    IF ser_ = None THEN return([error |-> "No connection"])
    ELSE IF port.write_raises \/ port.read_raises THEN raise("SerialException")
    ELSE LET decoded == decode(port.line)
             response_raw == strip(decoded.text)
             loaded == json_loads(response_raw)
         IN IF decoded.raised # "none" THEN raise(decoded.raised)
            ELSE IF response_raw = ""
            THEN return([error |-> "No response from Arduino"])
            ELSE IF loaded.raised = "JSONDecodeError"
            THEN return([error |-> "Invalid response", raw |-> response_raw])
            ELSE return(loaded.value[1])

\* send_arduino_command(gate_type, inputs) of logic.py, reading the global ser; port
\* says what ser.write and ser.readline do during the call
send_arduino_command(ser_, gate_type, inputs, port) ==
    IF ser_ = None THEN return([error |-> "No connection"])
    ELSE IF port.write_raises \/ port.read_raises
    THEN return([error |-> "Communication error", exception |-> "SerialException"])
    ELSE LET decoded == decode(port.line)
             response_raw == strip(decoded.text)
             loaded == json_loads(response_raw)
         IN IF decoded.raised # "none"
            THEN return([error |-> "Communication error", exception |-> decoded.raised])
            ELSE IF response_raw = ""
            THEN return([error |-> "No response from Arduino"])
            ELSE IF loaded.raised = "JSONDecodeError"
            THEN return([error |-> "Invalid response", raw |-> response_raw])
            ELSE return(loaded.value[1])

\* send_arduino_command(ser, gate_type, inputs) of updated/app.py: one try around
\* everything, ser.write on None raising AttributeError
send_arduino_command_updated(ser_, gate_type, inputs, port) ==
    IF ser_ = None
    THEN return([error |-> "Communication error", exception |-> "AttributeError"])
    ELSE IF port.write_raises \/ port.read_raises
    THEN return([error |-> "Communication error", exception |-> "SerialException"])
    ELSE LET decoded == decode(port.line)
             response_raw == strip(decoded.text)
             loaded == json_loads(response_raw)
         IN IF decoded.raised # "none"
            THEN return([error |-> "Communication error", exception |-> decoded.raised])
            ELSE IF response_raw = ""
            THEN return([error |-> "No response from Arduino"])
            ELSE IF loaded.raised # "none"
            THEN return([error |-> "Communication error", exception |-> loaded.raised])
            ELSE return(loaded.value[1])

\* what can go wrong on the serial line during a call
Faults == {"none", "write", "read", "timeout", "blank", "noise", "undecodable"}

\* the input lists the simulators pass: [a] for the NOT gate, [a, b] otherwise
InputsOf(gate_type) == IF gate_type = "NOT" THEN [1..1 -> Bit] ELSE [1..2 -> Bit]

\* the port during a call under the given fault, the sketch having printed line
PortUnder(fault, line) ==
    [write_raises |-> fault = "write",
     read_raises |-> fault = "read",
     line |-> CASE fault = "timeout" -> ""
                [] fault = "blank" -> BlankLine
                [] fault = "noise" -> NoiseLine
                [] fault = "undecodable" -> Undecodable
                [] OTHER -> line]

\* what passes on the serial line during a call: the command reaches the sketch when
\* there is a port and the write goes through, and the sketch answers it
Exchange(ser_, gate_type, inputs, fault) ==
    LET wrote == ser_ # None /\ fault # "write"
        doc == command(gate_type, inputs)
        ran == IF wrote THEN loop(arduino, doc) ELSE [globals |-> arduino, line |-> ""]
    IN [wrote |-> wrote, doc |-> doc, globals |-> ran.globals, line |-> ran.line,
        port |-> PortUnder(fault, ran.line)]

\* a call of send_arduino_command
SendCommand ==
    \E ser_ \in {None, Port}, gate_type \in GateKinds, fault \in Faults :
    \E inputs \in InputsOf(gate_type) :
    LET x == Exchange(ser_, gate_type, inputs, fault) IN
        /\ call' = <<[ser |-> ser_, gate_type |-> gate_type, inputs |-> inputs,
                      fault |-> fault, wrote |-> x.wrote,
                      result |-> send_arduino_command(ser_, gate_type, inputs, x.port),
                      updated |-> send_arduino_command_updated(ser_, gate_type,
                                                               inputs, x.port)]>>
        /\ arduino' = x.globals
        /\ served' = IF x.wrote THEN <<[doc |-> x.doc, line |-> x.line]>> ELSE served
        /\ UNCHANGED <<nodes, circuit_graph, error, appVars, components,
                       d_ff, d_sample, jk_ff, jk_sample, flip_flop, update_args,
                       fw_snapshot, ser, hardware_connected, response,
                       labVars, guiVars>>

\* ------------------------------------- Hardware Mode of the script (logic.py)
\* A run of the script with a basic gate selected in Hardware Mode. The script sets
\* ser = None and hardware_connected = False at its top in every run, and only the
\* handler of the sidebar button "Connect to Hardware" assigns them again; "Run
\* Hardware Test" is drawn, and its handler run, in the branch of hardware_connected.
ScriptRun(connect_pressed, opens, test_pressed) ==
    LET connected == connect_pressed /\ opens
        ser_ == IF connected THEN Port ELSE None
    IN /\ ser' = ser_
       /\ hardware_connected' = connected
       /\ IF connected /\ test_pressed
          THEN \E gate_type \in GateKinds, fault \in Faults :
               \E inputs \in InputsOf(gate_type) :
               LET x == Exchange(ser_, gate_type, inputs, fault) IN
                   /\ response' = send_arduino_command(ser_, gate_type, inputs,
                                                       x.port).returned
                   /\ arduino' = x.globals
                   /\ served' = IF x.wrote THEN <<[doc |-> x.doc, line |-> x.line]>>
                                ELSE served
          ELSE /\ response' = <<>>
               /\ UNCHANGED <<arduino, served>>
       /\ UNCHANGED <<nodes, circuit_graph, error, appVars, components,
                      d_ff, d_sample, jk_ff, jk_sample, flip_flop, update_args,
                      fw_snapshot, call, labVars, guiVars>>

\* a run started by the sidebar button "Connect to Hardware": serial.Serial opens
\* the port or raises
ConnectToHardware ==
    \E opens \in BOOLEAN : ScriptRun(TRUE, opens, FALSE)

\* a run started by the button "Run Hardware Test", which the run before has drawn
RunHardwareTest ==
    /\ hardware_connected
    /\ ScriptRun(FALSE, FALSE, TRUE)

\* a run started by any other widget
HardwareModeRerun ==
    ScriptRun(FALSE, FALSE, FALSE)

HwNext ==
    \/ SendCommand
    \/ ConnectToHardware
    \/ RunHardwareTest
    \/ HardwareModeRerun

SpecHw == Init /\ [][HwNext]_vars

\* ------------------------------------------ the desktop GUI (logic_gate_gui.py)
LedOn == "LED ON.jpg"
LedOff == "LED OFF.jpg"

\* load_image: the PhotoImage of the file, or None when opening it raised
Images(path) == {path, None}

\* what the hardware can put on the port: the lines 1 and 0, and bytes that
\* are not UTF-8
GuiLines == {"1", "0", Undecodable}

\* LogicGateGUI(root): serial.Serial opens COM13 or raises; with the port open
\* the constructor starts the reader thread and schedules process_queue
LogicGateGUI ==
    /\ ~gui.constructed
    /\ \E opens \in BOOLEAN, led_on_image \in Images(LedOn),
          led_off_image \in Images(LedOff) :
          /\ gui' = [constructed |-> TRUE, thread |-> opens,
                     led_on_image |-> led_on_image,
                     led_off_image |-> led_off_image,
                     read |-> <<>>, processed |-> <<>>]
          /\ hardware_led_label' = led_off_image
          /\ serial_port' = [is_open |-> opens, in_waiting |-> <<>>]
          /\ queue' = <<>>
          /\ after' = IF opens THEN "pending" ELSE "none"
    /\ UNCHANGED <<nodes, circuit_graph, error, appVars, components,
                   d_ff, d_sample, jk_ff, jk_sample, flip_flop, update_args,
                   fwVars, hwVars, labVars>>

\* the hardware sends one more line
HardwareSends ==
    /\ serial_port.is_open
    /\ Len(gui.read) + Len(serial_port.in_waiting) < MaxLines
    /\ \E line \in GuiLines :
          serial_port' = [serial_port EXCEPT !.in_waiting = Append(@, line)]
    /\ UNCHANGED <<nodes, circuit_graph, error, appVars, components,
                   d_ff, d_sample, jk_ff, jk_sample, flip_flop, update_args,
                   fwVars, hwVars, labVars, queue, hardware_led_label, after, gui>>

\* one turn of the loop of _read_serial, on the reader thread, that finds
\* in_waiting > 0: readline().decode("utf-8").strip(), queue.put(line); an
\* exception of the three calls is printed and the loop goes on
read_hardware_status ==
    /\ gui.constructed /\ gui.thread
    /\ Len(serial_port.in_waiting) > 0
    /\ LET bytes == Head(serial_port.in_waiting)
           decoded == decode(bytes)
       IN /\ serial_port' = [serial_port EXCEPT !.in_waiting = Tail(@)]
          /\ queue' = IF decoded.raised = "none"
                      THEN Append(queue, strip(decoded.text))
                      ELSE queue
          /\ gui' = [gui EXCEPT !.read = Append(@, bytes)]
    /\ UNCHANGED <<nodes, circuit_graph, error, appVars, components,
                   d_ff, d_sample, jk_ff, jk_sample, flip_flop, update_args,
                   fwVars, hwVars, labVars, hardware_led_label, after>>

\* the if / else of process_queue on one line: the label is configured only
\* when the image was loaded
config(label, line, led_on_image, led_off_image) ==
    IF line = "1"
    THEN IF led_on_image # None THEN led_on_image ELSE label
    ELSE IF led_off_image # None THEN led_off_image ELSE label

\* process_queue on the GUI thread, one turn of its loop: get_nowait returns a
\* line, or raises queue.Empty and the call schedules itself again
process_queue ==
    /\ after # "none"
    /\ IF queue # <<>>
       THEN /\ queue' = Tail(queue)
            /\ hardware_led_label' = config(hardware_led_label, Head(queue),
                                            gui.led_on_image, gui.led_off_image)
            /\ gui' = [gui EXCEPT !.processed = Append(@, Head(queue))]
            /\ after' = "running"
       ELSE /\ after' = "pending"
            /\ UNCHANGED <<queue, hardware_led_label, gui>>
    /\ UNCHANGED <<nodes, circuit_graph, error, appVars, components,
                   d_ff, d_sample, jk_ff, jk_sample, flip_flop, update_args,
                   fwVars, hwVars, labVars, serial_port>>

GuiNext ==
    \/ LogicGateGUI
    \/ HardwareSends
    \/ read_hardware_status
    \/ process_queue

SpecGui == Init /\ [][GuiNext]_vars

\* ------------------------------------------------------------ claims
Wires(graph) == Range(graph.edge)

\* the nodes reachable from the set S along one or more wires
RECURSIVE Closure(_, _)
Closure(graph, S) ==
    LET T == S \cup {e[2] : e \in {f \in Wires(graph) : f[1] \in S}}
    IN IF T = S THEN S ELSE Closure(graph, T)

ReachableFrom(graph, n) ==
    Closure(graph, {e[2] : e \in {f \in Wires(graph) : f[1] = n}})

HasCycle(graph) == \E n \in Range(graph.node) : n \in ReachableFrom(graph, n)

Arity(kind) == IF kind = "NOT" THEN 1 ELSE 2

\* the standard truth tables, indexed by 2a + b + 1 (by a + 1 for NOT)
TruthTable(kind) ==
    CASE kind = "AND" -> <<0, 0, 0, 1>>
      [] kind = "OR" -> <<0, 1, 1, 1>>
      [] kind = "XOR" -> <<0, 1, 1, 0>>
      [] kind = "NAND" -> <<1, 1, 1, 0>>
      [] kind = "NOR" -> <<1, 0, 0, 0>>
      [] kind = "XNOR" -> <<1, 0, 0, 1>>
      [] kind = "NOT" -> <<1, 0>>

GateNodes == {n \in Range(circuit_graph.node) : nodes[n] # "Input"}

Mismatched(n) == Len(predecessors(circuit_graph, n)) # Arity(nodes[n])

\* C1: on an acyclic graph compute_output returns, and the mapping it returns has
\* exactly one entry per node of the graph.
C1_AcyclicReturnsFullMapping ==
    ~HasCycle(circuit_graph) =>
        /\ error = "none"
        /\ output_values # NoMapping
        /\ DOMAIN output_values[1] = Range(circuit_graph.node)

\* C2: on an acyclic graph, a gate node whose number of incoming wires differs from
\* the arity of its kind gets the value 0, and the evaluation does not raise.
C2_ArityMismatchDefaultsToZero ==
    \A n \in GateNodes :
        (~HasCycle(circuit_graph) /\ Mismatched(n)) =>
            /\ error = "none"
            /\ n \in DOMAIN node_values
            /\ node_values[n] = 0

\* C3: a Clock Cycle evaluation of a graph that has a wire cycle ends with the cycle
\* error of the topological sort, and the stored values stay those of the evaluation
\* before.
C3_CycleErrorNoPartialMapping ==
    [][(components'.clock # components.clock /\ HasCycle(circuit_graph))
          => /\ error' = "NetworkXUnfeasible"
             /\ components'.values = components.values]_vars

\* C4: every gate node that compute_output gave a value and whose number of incoming
\* wires equals the arity of its kind has the value of the standard truth table of its
\* kind at the values of its predecessors, which were computed before it; a call that
\* returns has given a value to every gate node.
C4_GatesFollowTruthTables ==
    /\ error = "none" => GateNodes \subseteq DOMAIN node_values
    /\ \A n \in GateNodes \cap DOMAIN node_values :
          LET preds == predecessors(circuit_graph, n)
          IN ~Mismatched(n) =>
               /\ Range(preds) \subseteq DOMAIN node_values
               /\ node_values[n] =
                    IF nodes[n] = "NOT"
                    THEN TruthTable("NOT")[node_values[preds[1]] + 1]
                    ELSE TruthTable(nodes[n])[2 * node_values[preds[1]]
                                              + node_values[preds[2]] + 1]

\* a gate of the given kind fed by wires from two Input nodes holding a and b
FedBy(kind, a, b) ==
    \E n \in GateNodes \cap DOMAIN node_values :
        LET preds == predecessors(circuit_graph, n)
        IN /\ nodes[n] = kind
           /\ Len(preds) = 2
           /\ nodes[preds[1]] = "Input" /\ nodes[preds[2]] = "Input"
           /\ node_values[preds[1]] = a /\ node_values[preds[2]] = b

\* the sum gate of the half adder with both inputs at 1
C4_Witness == error = "none" /\ FedBy("XOR", 1, 1)

C5_RisingEdgeOnly ==
    [][/\ d_ff'.d_ff_q = IF d_sample.clock = 0 /\ d_sample'.clock = 1
                         THEN d_sample'.d_input ELSE d_ff.d_ff_q
       /\ d_ff'.prev_clock = d_sample'.clock
       /\ flip_flop'.state = IF update_args.clk = 0 /\ update_args'.clk = 1
                             THEN update_args'.D ELSE flip_flop.state
       /\ flip_flop'.prev_clk = update_args'.clk]_vars

\* both elements hold 1 with the clock held at 1 and D back at 0
C5_Witness ==
    /\ d_ff.d_ff_q = 1 /\ d_ff.prev_clock = 1 /\ d_sample = [d_input |-> 0, clock |-> 1]
    /\ flip_flop.state = 1 /\ flip_flop.prev_clk = 1 /\ update_args = [D |-> 0, clk |-> 1]

\* C6: a run of the JK simulator that reads the clock at 1 when the run before it
\* also read it at 1 leaves Q as it is.
C6_OncePerClockEvent ==
    [][(jk_sample.clock_input = 1 /\ jk_sample'.clock_input = 1)
          => jk_ff'.q_state = jk_ff.q_state]_vars

\* the Clock Cycle steps are the ones that change components["clock"]
ClockCycleStep == components'.clock # components.clock

\* C7: a DFF node with D as first and the clock as second predecessor that an earlier
\* evaluation left with clock sample 0 has the value 1 after an evaluation that
\* finds D and the clock at 1.
C7_DffFollowsStateMachine ==
    [][\A n \in DOMAIN components.values :
          LET preds == predecessors(circuit_graph, n)
          IN (/\ ClockCycleStep
              /\ error' = "none"
              /\ nodes[n] = "DFF"
              /\ Len(preds) = 2
              /\ components.seq[n].prev_clk = 0
              /\ Range(preds) \subseteq DOMAIN components.values
              /\ components.values[preds[1]] = 1
              /\ components.values[preds[2]] = 1)
                 => components'.values[n] = 1]_vars

\* C8: after a Clock Cycle evaluation that ends without error, every AND, OR and NOT
\* node that has a value has the value of its function at the values its
\* predecessors have after that same evaluation.
C8_FullRecomputation ==
    [][(ClockCycleStep /\ error' = "none") =>
          \A n \in DOMAIN components'.values :
              LET preds == predecessors(circuit_graph, n)
                  values == components'.values
              IN nodes[n] \in {"AND", "OR", "NOT"} =>
                   /\ Range(preds) \subseteq DOMAIN values
                   /\ nodes[n] = "AND" =>
                        values[n] = IF \A p \in Range(preds) : values[p] = 1 THEN 1 ELSE 0
                   /\ nodes[n] = "OR" =>
                        values[n] = IF \E p \in Range(preds) : values[p] = 1 THEN 1 ELSE 0
                   /\ (nodes[n] = "NOT" /\ preds # <<>>) =>
                        values[n] = 1 - values[preds[1]]]_vars

\* C9: a Clock Cycle evaluation of an acyclic graph ends without error and leaves a
\* value for every node of the graph.
C9_AcyclicLeavesAllValues ==
    [][(ClockCycleStep /\ ~HasCycle(circuit_graph))
          => /\ error' = "none"
             /\ DOMAIN components'.values = Range(circuit_graph.node)]_vars

\* C11: compute_output leaves the mapping of its caller as it found it: after every
\* evaluation input_values has no entry for a gate node, and the values the call
\* computed for the gate nodes are in the mapping it built and returned only.
C11_NoSideEffects ==
    /\ DOMAIN input_values \cap GateNodes = {}
    /\ GateNodes \cap DOMAIN node_values # {} => node_values # input_values
    /\ error = "none" =>
          /\ GateNodes \subseteq DOMAIN output_values[1]
          /\ \A n \in DOMAIN input_values : output_values[1][n] = input_values[n]

\* a returned mapping with a gate at 1 computed from an input at 1
C11_Witness ==
    /\ error = "none"
    /\ \E n \in GateNodes : output_values[1][n] = 1 /\ ~Mismatched(n)
    /\ \E i \in DOMAIN input_values : input_values[i] = 1

\* C12: no graph a circuit builder can reach has a wire from a node to itself; a
\* Connect with the source among its targets adds no such wire.
C12_NoSelfLoops ==
    \A e \in Wires(circuit_graph) : e[1] # e[2]

\* C13: every Add Component run adds exactly one node to the graph and leaves the
\* kind, the value and the stored object (state, prev_clk) of every node that was
\* there before as they were.
C13_AddCreatesFreshNode ==
    [][AddComponent =>
          /\ Len(circuit_graph'.node) = Len(circuit_graph.node) + 1
          /\ \A n \in DOMAIN nodes : nodes'[n] = nodes[n]
          /\ \A n \in DOMAIN components.values :
                components'.values[n] = components.values[n]
          /\ \A n \in DOMAIN components.seq :
                components'.seq[n] = components.seq[n]]_vars

\* C14: an evaluation that ends with the cycle error of the topological sort has
\* computed no value: its node_values holds the input values it started from and
\* nothing else.
C14_CycleErrorBeforeEvaluation ==
    error = "NetworkXUnfeasible" => node_values = input_values

\* C15: in a returned mapping an AND node with exactly one incoming wire has the
\* value 0, and what the mapping says of a gate node that got the fallback value
\* differs from what it says of a gate node whose function computed its value, so
\* that the caller can tell the two apart.
C15_DegradedFlagged ==
    error = "none" =>
        /\ \A n \in GateNodes :
              (nodes[n] = "AND" /\ Len(predecessors(circuit_graph, n)) = 1)
                  => output_values[1][n] = 0
        /\ \A n1, n2 \in GateNodes :
              (Mismatched(n1) /\ ~Mismatched(n2))
                  => output_values[1][n1] # output_values[1][n2]

\* the places in the list of wires, oldest first, of the wires into n
WiresInto(n) == {i \in 1..Len(circuit_graph.edge) : circuit_graph.edge[i][2] = n}

\* the source of the oldest wire into n that is not among the places in skipped
OldestSource(n, skipped) ==
    LET W == WiresInto(n) \ skipped
        first == CHOOSE i \in W : \A j \in W : i <= j
    IN [wire |-> first, source |-> circuit_graph.edge[first][1]]

\* the place of node u in the order of creation
Created(u) == CHOOSE i \in 1..Len(circuit_graph.node) : circuit_graph.node[i] = u

\* C16: a node that a Clock Cycle evaluation gives its first value takes its operands
\* in the order its wires were added: a NOT node negates the source of its oldest
\* wire, and a DFF node is updated with the source of its oldest wire as D and the
\* source of its second oldest wire as the clock, whatever the order in which the
\* sources were created.
C16_OperandsInWireOrder ==
    [][ClockCycleStep =>
          \A n \in DOMAIN components'.values \ DOMAIN components.values :
              LET values == components'.values
                  w1 == OldestSource(n, {})
                  w2 == OldestSource(n, {w1.wire})
              IN /\ (nodes[n] = "NOT" /\ WiresInto(n) # {})
                      => values[n] = 1 - values[w1.source]
                 /\ (nodes[n] = "DFF" /\ Cardinality(WiresInto(n)) >= 2)
                      => /\ components'.seq[n] =
                              update(components.seq[n], values[w1.source],
                                     values[w2.source])
                         /\ values[n] = components'.seq[n].state]_vars

\* a DFF node evaluated with D = 0 from its older wire and the clock = 1 from its newer
\* wire, the source of the newer wire being the node created first
C16_Witness ==
    \E n \in DOMAIN components.values :
        /\ nodes[n] = "DFF"
        /\ Cardinality(WiresInto(n)) = 2
        /\ LET w1 == OldestSource(n, {})
               w2 == OldestSource(n, {w1.wire})
           IN /\ Created(w2.source) < Created(w1.source)
              /\ {w1.source, w2.source} \subseteq DOMAIN components.values
              /\ components.values[w1.source] = 0
              /\ components.values[w2.source] = 1
              /\ components.seq[n] = [state |-> 0, prev_clk |-> 1]

\* C17: a wire is in the graph once however often it was added: the list of wires
\* and the predecessor list of every node hold no wire twice, so the length of a
\* predecessor list is the number of distinct sources wired to the node.
C17_NoDoubleCount ==
    /\ Len(circuit_graph.edge) = Cardinality(Wires(circuit_graph))
    /\ \A v \in Range(circuit_graph.node) :
          LET preds == predecessors(circuit_graph, v)
          IN /\ \A i, j \in 1..Len(preds) : i # j => preds[i] # preds[j]
             /\ Len(preds) = Cardinality({e \in Wires(circuit_graph) : e[2] = v})

\* an OR gate with one predecessor, an input at 1, that has the fallback value 0
C17_Witness ==
    /\ error = "none"
    /\ \E n \in GateNodes :
          LET preds == predecessors(circuit_graph, n)
          IN /\ nodes[n] = "OR"
             /\ Len(preds) = 1
             /\ nodes[preds[1]] = "Input"
             /\ output_values[1][preds[1]] = 1
             /\ output_values[1][n] = 0

\* C18: a Clear Circuit run ends, from any state, with the empty circuit: no node, no
\* wire, no kind, no input value, and its evaluation returns the empty mapping; a
\* Clear Circuit run on the empty circuit changes none of them.
C18_ClearResets ==
    [][ClearCircuit =>
          /\ circuit_graph' = EmptyGraph
          /\ nodes' = EmptyMap
          /\ input_values' = EmptyMap
          /\ error' = "none"
          /\ output_values' = <<EmptyMap>>
          /\ (circuit_graph = EmptyGraph /\ nodes = EmptyMap /\ input_values = EmptyMap)
                => UNCHANGED <<circuit_graph, nodes, input_values, error,
                               output_values>>]_vars

\* the empty circuit, evaluated by a run that took nodes out of the graph
C18_Witness ==
    /\ circuit_graph = EmptyGraph
    /\ nodes = EmptyMap
    /\ input_values = EmptyMap
    /\ output_values = <<EmptyMap>>
    /\ snapshot # NoSnapshot
    /\ snapshot[1].emptied

\* C19: the value an evaluation has for an Input node is the value input_values holds
\* for it, in its node_values and in the mapping it returns, whatever wires lead into
\* the node.
C19_InputsKeepTheirValue ==
    \A n \in Range(circuit_graph.node) :
        nodes[n] = "Input" =>
            /\ n \in DOMAIN node_values
            /\ node_values[n] = input_values[n]
            /\ error = "none" => output_values[1][n] = input_values[n]

\* an Input node at 1 with a wire into it from a gate at 0
C19_Witness ==
    /\ error = "none"
    /\ \E n \in Range(circuit_graph.node) :
          LET preds == predecessors(circuit_graph, n)
          IN /\ nodes[n] = "Input"
             /\ Len(preds) = 1
             /\ preds[1] \in GateNodes
             /\ output_values[1][preds[1]] = 0
             /\ output_values[1][n] = 1

\* C20: at every evaluation the three stores agree: the nodes of the graph are the
\* keys of the kind table, both ends of every wire are nodes of the graph, and
\* input_values has an entry for the Input nodes and for no other node.
C20_StoresConsistent ==
    /\ Range(circuit_graph.node) = DOMAIN nodes
    /\ Len(circuit_graph.node) = Cardinality(DOMAIN nodes)
    /\ \A e \in Wires(circuit_graph) : {e[1], e[2]} \subseteq DOMAIN nodes
    /\ DOMAIN input_values = {n \in DOMAIN nodes : nodes[n] = "Input"}
    /\ \A n \in DOMAIN input_values : input_values[n] \in Bit

\* a circuit of two Input nodes, one of them at 1, and a gate, with two wires
C20_Witness ==
    /\ Cardinality(DOMAIN input_values) = 2
    /\ \E n \in DOMAIN input_values : input_values[n] = 1
    /\ GateNodes # {}
    /\ Len(circuit_graph.edge) = 2

\* C21: a call of send_arduino_command, of logic.py and of updated/app.py, never ends
\* with an exception: it returns a dictionary with the key "error" when there is no
\* connection, when the write or the read raises, when the line read is empty or
\* white space, is not UTF-8 or is not JSON, and the decoded response of the sketch
\* otherwise.
C21_BridgeNeverRaises ==
    call # <<>> =>
        LET c == call[1]
            failed == c.ser = None \/ c.fault # "none"
        IN \A r \in {c.result, c.updated} :
               /\ r.raised = "none"
               /\ r.returned # <<>>
               /\ failed => "error" \in DOMAIN r.returned[1]
               /\ ~failed => r.returned[1] = [status |-> "OK", output |-> arduino.output]

\* a call on an open port that read a line that is not JSON
C21_Witness ==
    /\ call # <<>>
    /\ call[1].ser = Port
    /\ call[1].fault = "noise"
    /\ call[1].result.returned = <<[error |-> "Invalid response", raw |-> NoiseLine]>>

\* C22: the response of the sketch to a GATE request for one of the seven gate types
\* with an input list of the arity of the gate decodes to status OK with, as output,
\* the value the gate function of the software evaluator gives for the same inputs.
C22_FirmwareMatchesSoftware ==
    served # <<>> =>
        LET doc == served[1].doc
            loaded == json_loads(served[1].line)
        IN (/\ doc.json
            /\ doc.operation = "GATE"
            /\ doc.gate_type \in GateKinds
            /\ Len(doc.inputs) = Arity(doc.gate_type))
               => /\ loaded.raised = "none"
                  /\ loaded.value[1].status = "OK"
                  /\ loaded.value[1].output =
                       IF doc.gate_type = "NOT" THEN NOT(doc.inputs[1])
                       ELSE gate_functions(doc.gate_type, doc.inputs[1], doc.inputs[2])

\* the sketch has answered XOR of 1 and 1 with output 0
C22_Witness ==
    /\ served # <<>>
    /\ served[1].doc = command("XOR", <<1, 1>>)
    /\ served[1].line = OkLine(0)

\* C27: the line the sketch prints for a request is the line it printed for the same
\* request earlier, whatever requests came in between.
C27_ResponseDependsOnRequestOnly ==
    (/\ fw_snapshot # <<>>
     /\ served # <<>>
     /\ fw_snapshot[1].doc = served[1].doc)
        => fw_snapshot[1].line = served[1].line

\* C28: a run started by Run Hardware Test, a button the run before drew because the
\* connection was open, still has the connection and sends the GATE command: it gets
\* a result of send_arduino_command that is not the "No connection" error.
C28_ConnectionPersists ==
    [][(hardware_connected /\ RunHardwareTest)
          => /\ hardware_connected'
             /\ ser' # None
             /\ response' # <<>>
             /\ response' # <<[error |-> "No connection"]>>]_vars

\* the values the two metrics Q and Q-bar show once the run that starts ends
Shown == <<jk_ff'.q_state, jk_ff'.q_not_state>>
Held == "q_state" \in DOMAIN jk_ff => jk_ff' = jk_ff

\* C23: over any sequence of samples both SR latches follow their truth
\* tables.  The NAND latch, on the active-low pair (S-bar, R-bar), holds Q and
\* Q-bar on (1,1), sets Q=1, Q-bar=0 on (0,1), resets Q=0, Q-bar=1 on (1,0)
\* and shows Q = Q-bar = 1 on (0,0); the NOR latch, on (S, R), holds on (0,0),
\* sets on (1,0), resets on (0,1) and shows Q = Q-bar = 0 on (1,1).
C23_LatchesFollowTruthTables ==
    [][LET S == sr_sample'.set_input
           R == sr_sample'.reset_input
       IN /\ sr_latch_nand_simulator =>
                /\ (S = 1 /\ R = 1) => Held
                /\ (S = 0 /\ R = 1) => Shown = <<1, 0>>
                /\ (S = 1 /\ R = 0) => Shown = <<0, 1>>
                /\ (S = 0 /\ R = 0) => Shown = <<1, 1>>
          /\ sr_latch_nor_simulator =>
                /\ (S = 0 /\ R = 0) => Held
                /\ (S = 1 /\ R = 0) => Shown = <<1, 0>>
                /\ (S = 0 /\ R = 1) => Shown = <<0, 1>>
                /\ (S = 1 /\ R = 1) => Shown = <<0, 0>>]_vars

\* the NAND latch held a reset state, which is not the state it starts in
C23_Witness ==
    /\ sr_sample = [latch |-> "NAND", set_input |-> 1, reset_input |-> 1]
    /\ jk_ff = [q_state |-> 0, q_not_state |-> 1]

\* C24: the shift register always holds 4 bits <<b3, b2, b1, b0>>, and a run
\* with only Shift Right active leaves <<data, b3, b2, b1>>, a run with only
\* Shift Left active leaves <<b2, b1, b0, data>>, and a run with both or
\* neither active leaves the register as it was.
C24_ShiftRegisterFollowsTable ==
    [][shift_register_simulator =>
          LET b == shift_register_state
              data == shift_sample'.data_input
              right == shift_sample'.shift_right = 1
              left == shift_sample'.shift_left = 1
          IN /\ Len(shift_register_state') = 4
             /\ \A i \in 1..4 : shift_register_state'[i] \in Bit
             /\ (right /\ ~left) =>
                    shift_register_state' = <<data, b[1], b[2], b[3]>>
             /\ (left /\ ~right) =>
                    shift_register_state' = <<b[2], b[3], b[4], data>>
             /\ (right = left) => shift_register_state' = b]_vars

\* a 1 entered at Bit 0, moved left, and a Shift Right then dropped Bit 0
C24_Witness ==
    /\ shift_sample = [shift_right |-> 1, shift_left |-> 0, data_input |-> 1]
    /\ shift_register_state = <<1, 0, 0, 1>>

In(name) == adder.inputs[name]
Out(name) == adder.outputs[name]

\* C25: for all inputs in {0,1} the full adder shows Sum + 2*Cout = A + B + Cin
\* and the full subtractor Difference - 2*BorrowOut = A - B - BorrowIn; the
\* half adder and the half subtractor satisfy the same equations with Cin = 0
\* and BorrowIn = 0.
C25_ArithmeticallyCorrect ==
    /\ adder.experiment = "Full Adder" =>
          Out("Sum") + 2 * Out("Carry Out")
              = In("Input A") + In("Input B") + In("Carry In")
    /\ adder.experiment = "Full Subtractor" =>
          Out("Difference") - 2 * Out("Borrow Out")
              = In("Input A") - In("Input B") - In("Borrow In")
    /\ adder.experiment = "Half Adder" =>
          Out("Sum") + 2 * Out("Carry") = In("Input A") + In("Input B")
    /\ adder.experiment = "Half Subtractor" =>
          Out("Difference") - 2 * Out("Borrow") = In("Input A") - In("Input B")

\* the full subtractor showed 0 - 1 - 1 = 0 - 2*1, after a full adder run
C25_Witness ==
    /\ adder.experiment = "Full Subtractor"
    /\ In("Input A") = 0 /\ In("Input B") = 1 /\ In("Borrow In") = 1
    /\ Out("Difference") = 0 /\ Out("Borrow Out") = 1
    /\ "Carry Out" \in DOMAIN waveform_data.Outputs

\* C29: after any sequence of log_data calls, whatever names each call logs,
\* every series under Inputs and under Outputs is as long as Time, and Time is
\* 0, 1, 2, ... with one entry per call.
C29_LogAligned ==
    /\ \A key \in DOMAIN waveform_data.Inputs :
          Len(waveform_data.Inputs[key]) = Len(waveform_data.Time)
    /\ \A key \in DOMAIN waveform_data.Outputs :
          Len(waveform_data.Outputs[key]) = Len(waveform_data.Time)
    /\ \A i \in 1..Len(waveform_data.Time) : waveform_data.Time[i] = i - 1

\* the lines read so far, as the reader thread decodes and strips them
Lines(read) == [i \in 1..Len(read) |-> strip(decode(read[i]).text)]
Last(lines) == lines[Len(lines)]

\* C26: with the serial port open, every line the reader thread has read is on
\* the queue or was taken off it by process_queue, in the order received; once
\* a line was processed the LED shows ON exactly when the last processed line
\* is "1" and OFF otherwise; a step of the reader thread leaves the label
\* alone, and a call of process_queue that ends is scheduled again.
C26_EveryLineReachesTheLed ==
    [][(gui.constructed /\ serial_port.is_open) =>
          /\ gui'.processed \o queue' = Lines(gui'.read)
          /\ gui'.processed # <<>> =>
                hardware_led_label' =
                    (IF Last(gui'.processed) = "1" THEN LedOn ELSE LedOff)
          /\ read_hardware_status => hardware_led_label' = hardware_led_label
          /\ after' # "none"]_vars
====
